---- MODULE Spec2Model ----
(***************************************************************************)
(* Model of lint.py, the entry point of the omegaUp linting tool: the      *)
(* checker loop of main(), the per-file pool and the whole-set phase of    *)
(* _run_linter, the writer _report_linter_results, and the decision at     *)
(* the end of main() with the self re-invocation in fix mode.              *)
(***************************************************************************)
EXTENDS Naturals, Sequences, FiniteSets, TLC

(* ------------------------------ bounds --------------------------------- *)

\* longest file list given on the command line (args.files)
MaxFiles == 2
\* largest number of entries of config['lint']
MaxRoster == 2
\* the pool size given on the command line (args.jobs)
Jobs == 2
\* longest whitelist and blacklist of an entry, where the filter is examined
MaxPatterns == 2

(* --------------------------- values of the model ----------------------- *)

\* File names are character sequences, so that re.match has something to
\* anchor on.  "a" and "ba": the pattern "a" occurs in both, at the start of
\* the first only.
FileA == <<"a">>
FileB == <<"b", "a">>
Paths == {FileA, FileB}

\* Regular expressions of the configuration: literal patterns.  The empty
\* pattern matches every name.
PatAny == <<>>
PatA == <<"a">>
PatB == <<"b">>

\* File contents are byte sequences.
Tidy == <<"x">>
Trailing == <<"x", " ">>
Broken == <<"!">>
Contents == {Tidy, Trailing, Broken}

\* Python's None in a (violation, fixable) pair; no file name is empty.
None == <<>>

Range(s) == {s[i] : i \in 1..Len(s)}

RECURSIVE SetToSeq(_)
\* list(S) for a set S, in a fixed order
SetToSeq(S) ==
    IF S = {} THEN <<>>
    ELSE LET x == CHOOSE y \in S : \A z \in S : Len(y) <= Len(z)
         IN <<x>> \o SetToSeq(S \ {x})

RECURSIVE SeqsUpTo(_, _)
\* every sequence over S of length at most n
SeqsUpTo(S, n) ==
    IF n = 0 THEN {<<>>}
    ELSE LET shorter == SeqsUpTo(S, n - 1)
         IN shorter \cup {Append(s, x) : s \in shorter, x \in S}

(* ------------------- the checkers (module linters) --------------------- *)

\* The checkers with work in one phase only: two per-file ones, one
\* whole-set one.
OnePhase == {"whitespace", "php", "i18n"}

\* The names main() can dispatch on.  The source registers seven classes;
\* the model keeps four of them, one per kind of behaviour: main() calls
\* run_one and run_all on every one of them, and html has work in both.
_LINTER_MAPPING == OnePhase \cup {"html"}

RECURSIVE RStrip(_)
RStrip(c) ==
    IF c # <<>> /\ c[Len(c)] = " " THEN RStrip(SubSeq(c, 1, Len(c) - 1)) ELSE c

\* linter.run_one(filename, contents): either raises LinterException with a
\* fixable flag, or returns the new contents.
\*   whitespace  strips trailing blanks
\*   php         cannot parse Broken (not fixable); rejects trailing blanks
\*               with a failure it declares fixable
\*   i18n        has no per-file work
\*   html        strips trailing blanks
run_one(linter, filename, contents) ==
    CASE linter \in {"whitespace", "html"} ->
            [raised |-> FALSE, new_contents |-> RStrip(contents), fixable |-> FALSE]
      [] linter = "php" /\ contents = Broken ->
            [raised |-> TRUE, new_contents |-> contents, fixable |-> FALSE]
      [] linter = "php" /\ contents # RStrip(contents) ->
            [raised |-> TRUE, new_contents |-> contents, fixable |-> TRUE]
      [] OTHER ->
            [raised |-> FALSE, new_contents |-> contents, fixable |-> FALSE]

\* the longest of the contents of the files S, read through lookup
Longest(S, lookup) ==
    lookup[CHOOSE f \in S : \A g \in S : Len(lookup[g]) <= Len(lookup[f])]

\* linter.run_all(files, lookup): either raises LinterException, or returns
\* new_file_contents and original_contents by file name.
\*   i18n        needs every file to hold the same entries: it cannot read
\*               Broken (not fixable), and otherwise brings every file to the
\*               longest contents of the set
\*   html        looks every file up and finds nothing to change
\*   the others  return nothing
run_all(linter, filenames, lookup) ==
    LET S == Range(filenames)
    IN IF linter = "html"
       THEN [raised |-> FALSE, fixable |-> FALSE,
             new_file_contents |-> [f \in S |-> lookup[f]],
             original_contents |-> [f \in S |-> lookup[f]]]
       ELSE IF linter = "i18n" /\ \E f \in S : lookup[f] = Broken
       THEN [raised |-> TRUE, fixable |-> FALSE,
             new_file_contents |-> <<>>, original_contents |-> <<>>]
       ELSE IF linter = "i18n"
       THEN [raised |-> FALSE, fixable |-> FALSE,
             new_file_contents |-> [f \in S |-> Longest(S, lookup)],
             original_contents |-> [f \in S |-> lookup[f]]]
       ELSE [raised |-> FALSE, fixable |-> FALSE,
             new_file_contents |-> <<>>, original_contents |-> <<>>]

\* the names linter.run_all calls its lookup with
run_all_reads(linter, filenames) ==
    IF linter \in {"i18n", "html"} THEN Range(filenames) ELSE {}

(* ----------------------------- lint.py --------------------------------- *)

\* r.search(filename): a match anywhere in the name
Search(r, filename) ==
    \E k \in 0..Len(filename) :
        k + Len(r) <= Len(filename) /\ SubSeq(filename, k + 1, k + Len(r)) = r

\* r.match(filename) of a compiled literal pattern: a match at the start of
\* the name
Match(r, filename) ==
    Len(r) <= Len(filename) /\ SubSeq(filename, 1, Len(r)) = r

\* any(r.match(filename) for r in whitelist)
InWhitelist(options, filename) ==
    \E i \in 1..Len(options.whitelist) : Match(options.whitelist[i], filename)

\* all(not r.match(filename) for r in blacklist)
NotInBlacklist(options, filename) ==
    \A i \in 1..Len(options.blacklist) : ~Match(options.blacklist[i], filename)

\* filtered_files of main(): the two list comprehensions
FilteredFiles(arg_files, options) ==
    LET white(f) == InWhitelist(options, f)
        black(f) == NotInBlacklist(options, f)
    IN SelectSeq(SelectSeq(arg_files, white), black)

\* the writer writing in validate mode too
_report_linter_results_writes(filename, new_contents, validate, fixable_) ==
    [write |-> TRUE, new_contents |-> new_contents,
     result |-> <<filename, fixable_>>]

\* the writer returning no violation for a file it has fixed
_report_linter_results_silent(filename, new_contents, validate, fixable_) ==
    [write |-> ~validate, new_contents |-> new_contents,
     result |-> IF validate THEN <<filename, fixable_>> ELSE <<None, FALSE>>]

\* _report_linter_results: whether the file is opened for writing, and the
\* pair returned
_report_linter_results(filename, new_contents, validate, fixable_) ==
    [write |-> ~validate, new_contents |-> new_contents,
     result |-> <<filename, fixable_>>]

\* _run_linter_one without its test for unchanged contents
_run_linter_one_unchanged(linter, filename, contents, validate_only) ==
    LET r == run_one(linter, filename, contents)
    IN IF r.raised
       THEN [write |-> FALSE, new_contents |-> contents,
             result |-> <<filename, r.fixable>>]
       ELSE _report_linter_results(filename, r.new_contents, validate_only, TRUE)

\* _run_linter_one recording a change with the flag its checker returned
_run_linter_one_declared(linter, filename, contents, validate_only) ==
    LET r == run_one(linter, filename, contents)
    IN IF r.raised
       THEN [write |-> FALSE, new_contents |-> contents,
             result |-> <<filename, r.fixable>>]
       ELSE IF contents = r.new_contents
       THEN [write |-> FALSE, new_contents |-> contents,
             result |-> <<None, FALSE>>]
       ELSE _report_linter_results(filename, r.new_contents, validate_only,
                                   r.fixable)

\* _run_linter_one dropping the failure of its checker
_run_linter_one_lost(linter, filename, contents, validate_only) ==
    LET r == run_one(linter, filename, contents)
    IN IF r.raised \/ contents = r.new_contents
       THEN [write |-> FALSE, new_contents |-> contents,
             result |-> <<None, FALSE>>]
       ELSE _report_linter_results(filename, r.new_contents, validate_only, TRUE)

\* _run_linter_one
_run_linter_one(linter, filename, contents, validate_only) ==
    LET r == run_one(linter, filename, contents)
    IN IF r.raised
       THEN [write |-> FALSE, new_contents |-> contents,
             result |-> <<filename, r.fixable>>]
       ELSE IF contents = r.new_contents
       THEN [write |-> FALSE, new_contents |-> contents,
             result |-> <<None, FALSE>>]
       ELSE _report_linter_results(filename, r.new_contents, validate_only, TRUE)

\* the loop of _run_linter_all reporting every name, changed or not
_run_linter_all_one_always(filename, new_file_contents, original_contents, validate_only) ==
    _report_linter_results(filename, new_file_contents[filename],
                           validate_only, TRUE)

\* one turn of the loop of _run_linter_all over new_file_contents
_run_linter_all_one(filename, new_file_contents, original_contents, validate_only) ==
    IF original_contents[filename] = new_file_contents[filename]
    THEN [write |-> FALSE, new_contents |-> original_contents[filename],
          result |-> <<None, FALSE>>]
    ELSE _report_linter_results(filename, new_file_contents[filename],
                                validate_only, TRUE)

\* the except branch of _run_linter_all
_run_linter_all_failed(filenames, fixable_) ==
    {<<filenames[i], fixable_>> : i \in 1..Len(filenames)}

\* _run_linter's return value, first component
Violations(res) == {r[1] : r \in {q \in res : q[1] # None}}

\* the flag true only when every result is fixable
AllFixable(res) == \A r \in res : r[2]

\* _run_linter's return value, second component
AnyFixable(res) == \E r \in res : r[2]

\* a fix run that retries as a validate run does
DecisionRetryInFix(violations, fixable_, validate_only) ==
    IF violations = {} THEN "Clean"
    ELSE IF ~fixable_ THEN "UnfixableErrors"
    ELSE "Retry"

\* the branch main() takes once the loop is over
Decision(violations, fixable_, validate_only) ==
    IF violations = {} THEN "Clean"
    ELSE IF ~fixable_ THEN "UnfixableErrors"
    ELSE IF validate_only THEN "Retry"
    ELSE "WrittenToDisk"

\* a run that wrote its fixes counted as a success
ExitStatusWrittenIsSuccess(decision) ==
    IF decision \in {"Clean", "WrittenToDisk"} THEN 0 ELSE 1

\* the status main() exits with in each branch
ExitStatus(decision) == IF decision = "Clean" THEN 0 ELSE 1

\* git_tools.attempt_automatic_fixes, its result: whether the run it started
\* in fix mode came out clean
attempt_automatic_fixes(child_status) == child_status = 0

(* ------------------------------ state ---------------------------------- *)

VARIABLES
    disk,             \* the working tree: contents by file name
    args,             \* the parsed command line: tool, files, jobs
    config,           \* config['lint'].items(): name, whitelist, blacklist
    pc,               \* where main() stands
    idx,              \* the entry of config the loop of main() is at
    filtered_files,   \* filtered_files of main(), for the current linter
    files,            \* the dict files of _run_linter: contents by name
    task,             \* the pool's tasks: the name, and pending, running or done
    outfile,          \* the files open for writing: what is left to write
    results,          \* results of _run_linter: (violation, fixable) pairs
    batch,            \* what linter.run_all returned
    allq,             \* the names _run_linter_all has still to go through
    file_violations,  \* file_violations of main()
    fixable,          \* fixable of main()
    status,           \* the exit status of the process that ended last
    outcome,          \* the branch it ended in
    parent,           \* the validate run waiting for the fix run it started
    retry,            \* what the fix run it started ended with
    disk0,            \* history: the working tree at the start
    events,           \* history: what the checkers reported
    writes,           \* history: the files opened for writing
    passed,           \* history: the names handed to each checker
    reads,            \* history: the contents retrieved for each checker
    called,           \* history: the calls of _run_linter_all
    loaded,           \* history: the processes that read the configuration
    runs,             \* history: how many times the program was started
    first             \* the result of an earlier run over the same input

vars == <<disk, args, config, pc, idx, filtered_files, files, task, outfile,
          results, batch, allq, file_violations, fixable, status, outcome,
          parent, retry, disk0, events, writes, passed, reads, called, loaded,
          runs, first>>

loopvars == <<filtered_files, files, task, outfile, results, batch, allq>>
history == <<disk0, events, writes, passed, reads, called, loaded>>

\* 0 in the process the user started, 1 in the fix run it re-invoked
depth == Len(parent)

validate_only == args.tool = "validate"

linter == config[idx].name

\* the retry handed the whole file list, not narrowed
RetryFilesAll(violations) == args.files

\* lines 166-167: the files main() hands to attempt_automatic_fixes
RetryFiles(violations) == SetToSeq(violations)

NoBatch == [new_file_contents |-> <<>>, original_contents |-> <<>>]

\* one task for every name of the list, as often as the list names it
TaskNamesOfList(filenames, files_) == filenames

\* lines 103-106: one task for every item of the dict files
TaskNames(filenames, files_) == SetToSeq(DOMAIN files_)

\* the pool has run every task it was given
Drained == \A i \in DOMAIN task : task[i].state = "done"

(* ------------------------------ inputs --------------------------------- *)

Names == _LINTER_MAPPING \cup {"foo"}

\* the whitelist and blacklist of one entry of the configuration: one that
\* lets every file through, one that lets FileA alone through
Options ==
    { [whitelist |-> <<PatAny>>, blacklist |-> <<>>],
      [whitelist |-> <<PatA, PatB>>, blacklist |-> <<PatB>>] }

\* the options of a name that is not registered are never read
Entries ==
    { [name |-> n, whitelist |-> o.whitelist, blacklist |-> o.blacklist] :
        n \in OnePhase, o \in Options }
    \cup {[name |-> "foo", whitelist |-> <<PatAny>>, blacklist |-> <<>>]}

\* a JSON object has each key once
Rosters ==
    { r \in SeqsUpTo(Entries, MaxRoster) :
        \A i, j \in 1..Len(r) : i # j => r[i].name # r[j].name }

\* the state main() starts in, whatever the configuration and the tree hold
Started ==
    /\ disk0 = disk
    /\ args \in [tool : {"validate", "fix"}, files : SeqsUpTo(Paths, MaxFiles),
                 jobs : {Jobs}]
    /\ pc = "main"
    /\ idx = 1
    /\ filtered_files = <<>>
    /\ files = <<>>
    /\ task = <<>>
    /\ outfile = <<>>
    /\ results = {}
    /\ batch = NoBatch
    /\ allq = <<>>
    /\ file_violations = {}
    /\ fixable = FALSE
    /\ status = 0
    /\ outcome = "running"
    /\ parent = <<>>
    /\ retry = <<>>
    /\ events = {}
    /\ writes = {}
    /\ passed = {}
    /\ reads = {}
    /\ called = <<>>
    /\ loaded = {}
    /\ runs = 0
    /\ first = <<>>

Init ==
    /\ disk \in [Paths -> Contents]
    /\ config \in Rosters
    /\ Started

\* the inputs for the filter: one entry, with every whitelist and blacklist
\* of at most MaxPatterns patterns, over one working tree
Patterns == {PatAny, PatA, PatB}

FilterEntries ==
    { [name |-> n, whitelist |-> w, blacklist |-> b] :
        n \in OnePhase,
        w \in SeqsUpTo(Patterns, MaxPatterns),
        b \in SeqsUpTo(Patterns, MaxPatterns) }
    \cup {[name |-> "foo", whitelist |-> <<PatAny>>, blacklist |-> <<>>]}

InitFilter ==
    /\ disk = (FileA :> Trailing @@ FileB :> Tidy)
    /\ config \in {<<e>> : e \in FilterEntries}
    /\ Started

(* ------------------------------ main() --------------------------------- *)

\* main() reading the configuration before it looks at the file list
StartLoading ==
    /\ pc = "main"
    /\ IF args.files = <<>>
       THEN /\ pc' = "exit"
            /\ status' = 0
            /\ outcome' = "NoFiles"
       ELSE /\ pc' = "for"
            /\ UNCHANGED <<status, outcome>>
    /\ loaded' = loaded \cup {depth}
    /\ idx' = 1
    /\ file_violations' = {}
    /\ fixable' = FALSE
    /\ runs' = runs + 1
    /\ UNCHANGED <<disk, args, config, loopvars, parent, retry, disk0, events,
                   writes, passed, reads, called, first>>

\* lines 116-132: an empty file list returns at once, before the
\* configuration is opened
Start ==
    /\ pc = "main"
    /\ IF args.files = <<>>
       THEN /\ pc' = "exit"
            /\ status' = 0
            /\ outcome' = "NoFiles"
            /\ UNCHANGED loaded
       ELSE /\ pc' = "for"
            /\ loaded' = loaded \cup {depth}
            /\ UNCHANGED <<status, outcome>>
    /\ idx' = 1
    /\ file_violations' = {}
    /\ fixable' = FALSE
    /\ runs' = runs + 1
    /\ UNCHANGED <<disk, args, config, loopvars, parent, retry, disk0, events,
                   writes, passed, reads, called, first>>

\* lines 135-139: a name that is not registered
UnknownLinter ==
    /\ pc = "for"
    /\ idx <= Len(config)
    /\ linter \notin _LINTER_MAPPING
    /\ pc' = "exit"
    /\ status' = 1
    /\ outcome' = "ConfigurationError"
    /\ UNCHANGED <<disk, args, config, idx, loopvars, file_violations, fixable,
                   parent, retry, history, runs, first>>

\* lines 141-153 and 100-101: filter the names, read their contents
Dispatch ==
    /\ pc = "for"
    /\ idx <= Len(config)
    /\ linter \in _LINTER_MAPPING
    /\ filtered_files' = FilteredFiles(args.files, config[idx])
    /\ files' = [f \in Range(filtered_files') |-> disk[f]]
    /\ LET tn == TaskNames(filtered_files', files')
       IN task' = [i \in 1..Len(tn) |-> [name |-> tn[i], state |-> "pending"]]
    /\ reads' = reads \cup
          {[depth |-> depth, linter |-> linter, path |-> f, phase |-> "one",
            contents |-> files'[f]] : f \in DOMAIN files'}
    /\ results' = {}
    /\ pc' = "pool"
    /\ UNCHANGED <<disk, args, config, idx, outfile, batch, allq, file_violations,
                   fixable, status, outcome, parent, retry, disk0, events, writes,
                   passed, called, loaded, runs, first>>

\* open(..., 'wb') of _report_linter_results: the file is empty from here on
Open(f, t, given, phase) ==
    /\ disk' = [disk EXCEPT ![f] = <<>>]
    /\ outfile' = [g \in DOMAIN outfile \cup {f} |->
                     IF g = f THEN [rest |-> t.new_contents, result |-> t.result]
                     ELSE outfile[g]]
    /\ writes' = writes \cup {[depth |-> depth, linter |-> linter, path |-> f,
                               given |-> given, new |-> t.new_contents,
                               phase |-> phase]}

\* what a checker reported for f, from the pair the code made of it
Reported(f, t, kind, phase) ==
    IF kind = "none" THEN {}
    ELSE {[depth |-> depth, linter |-> linter, path |-> f, kind |-> kind,
           fixable |-> t.result[2], phase |-> phase]}

\* lines 102-106, one task of the pool: _run_linter_one on one name
RunOne(i) ==
    /\ pc = "pool"
    /\ i \in DOMAIN task
    /\ task[i].state = "pending"
    /\ Cardinality({j \in DOMAIN task : task[j].state = "running"}) < args.jobs
    /\ LET f == task[i].name
           r == run_one(linter, f, files[f])
           t == _run_linter_one(linter, f, files[f], validate_only)
           kind == IF r.raised THEN "failure"
                   ELSE IF r.new_contents # files[f] THEN "changed" ELSE "none"
       IN /\ events' = events \cup Reported(f, t, kind, "one")
          /\ IF t.write
             THEN /\ Open(f, t, files[f], "one")
                  /\ task' = [task EXCEPT ![i].state = "running"]
                  /\ UNCHANGED results
             ELSE /\ task' = [task EXCEPT ![i].state = "done"]
                  /\ results' = results \cup {t.result}
                  /\ UNCHANGED <<disk, outfile, writes>>
          /\ passed' = passed \cup {[depth |-> depth, linter |-> linter,
                                     path |-> f, phase |-> "one"]}
    /\ UNCHANGED <<args, config, pc, idx, filtered_files, files, batch, allq,
                   file_violations, fixable, status, outcome, parent, retry,
                   disk0, reads, called, loaded, runs, first>>

\* outfile.write and the close at the end of the with block: the bytes reach
\* the file one after the other; with the last one the writer returns its pair
Write(f) ==
    /\ pc \in {"pool", "all"}
    /\ f \in DOMAIN outfile
    /\ LET o == outfile[f]
           last == Len(o.rest) <= 1
       IN /\ disk' = [disk EXCEPT ![f] = @ \o SubSeq(o.rest, 1, 1)]
          /\ IF last
             THEN /\ outfile' = [g \in DOMAIN outfile \ {f} |-> outfile[g]]
                  /\ results' = results \cup {o.result}
                  /\ IF pc = "pool"
                     THEN /\ task' = [i \in DOMAIN task |->
                                         IF task[i].name = f /\ task[i].state = "running"
                                         THEN [task[i] EXCEPT !.state = "done"]
                                         ELSE task[i]]
                          /\ UNCHANGED allq
                     ELSE /\ allq' = Tail(allq)
                          /\ UNCHANGED task
             ELSE /\ outfile' = [outfile EXCEPT ![f].rest = Tail(@)]
                  /\ UNCHANGED <<results, task, allq>>
    /\ UNCHANGED <<args, config, pc, idx, filtered_files, files, batch,
                   file_violations, fixable, status, outcome, parent, retry,
                   history, runs, first>>

\* line 107 and lines 50-60: the pool has drained; linter.run_all reads the
\* contents through its lookup, that is from the working tree as it is now
RunAll ==
    /\ pc = "pool"
    /\ Drained
    /\ LET r == run_all(linter, filtered_files, disk)
       IN IF r.raised
          THEN /\ results' = results \cup _run_linter_all_failed(filtered_files, r.fixable)
               /\ events' = events \cup
                    {[depth |-> depth, linter |-> linter, path |-> f,
                      kind |-> "failure", fixable |-> r.fixable,
                      phase |-> "all"] :
                        f \in Range(filtered_files)}
               /\ batch' = NoBatch
               /\ allq' = <<>>
          ELSE /\ batch' = [new_file_contents |-> r.new_file_contents,
                            original_contents |-> r.original_contents]
               /\ allq' = SetToSeq(DOMAIN r.new_file_contents)
               /\ UNCHANGED <<results, events>>
    /\ passed' = passed \cup {[depth |-> depth, linter |-> linter, path |-> f,
                               phase |-> "all"] : f \in Range(filtered_files)}
    /\ reads' = reads \cup
          {[depth |-> depth, linter |-> linter, path |-> f, phase |-> "all",
            contents |-> disk[f]] : f \in run_all_reads(linter, filtered_files)}
    /\ called' = Append(called, [depth |-> depth, linter |-> linter])
    /\ pc' = "all"
    /\ UNCHANGED <<disk, args, config, idx, filtered_files, files, task, outfile,
                   file_violations, fixable, status, outcome, parent, retry,
                   disk0, writes, loaded, runs, first>>

\* lines 62-71, one turn of the loop over new_file_contents
AllOne ==
    /\ pc = "all"
    /\ allq # <<>>
    /\ outfile = <<>>
    /\ LET f == Head(allq)
           t == _run_linter_all_one(f, batch.new_file_contents,
                                    batch.original_contents, validate_only)
           kind == IF batch.new_file_contents[f] # batch.original_contents[f]
                   THEN "changed" ELSE "none"
       IN /\ events' = events \cup Reported(f, t, kind, "all")
          /\ IF t.write
             THEN /\ Open(f, t, batch.original_contents[f], "all")
                  /\ UNCHANGED <<results, allq>>
             ELSE /\ results' = results \cup {t.result}
                  /\ allq' = Tail(allq)
                  /\ UNCHANGED <<disk, outfile, writes>>
    /\ UNCHANGED <<args, config, pc, idx, filtered_files, files, task, batch,
                   file_violations, fixable, status, outcome, parent, retry,
                   disk0, passed, reads, called, loaded, runs, first>>

\* the loop of main() moving on while the whole-set phase is still under way
AggregateEarly ==
    /\ pc = "all"
    /\ file_violations' = file_violations \cup Violations(results)
    /\ fixable' = (fixable \/ AnyFixable(results))
    /\ idx' = idx + 1
    /\ pc' = "for"
    /\ UNCHANGED <<disk, args, config, loopvars, status, outcome, parent, retry,
                   history, runs, first>>

\* the results of the linter taking the place of the session's
AggregateReplace ==
    /\ pc = "all"
    /\ allq = <<>>
    /\ file_violations' = Violations(results)
    /\ fixable' = AnyFixable(results)
    /\ idx' = idx + 1
    /\ pc' = "for"
    /\ UNCHANGED <<disk, args, config, loopvars, status, outcome, parent, retry,
                   history, runs, first>>

\* lines 108-110 and 157-158: fold the linter's results into the session's
Aggregate ==
    /\ pc = "all"
    /\ allq = <<>>
    /\ file_violations' = file_violations \cup Violations(results)
    /\ fixable' = (fixable \/ AnyFixable(results))
    /\ idx' = idx + 1
    /\ pc' = "for"
    /\ UNCHANGED <<disk, args, config, loopvars, status, outcome, parent, retry,
                   history, runs, first>>

\* the loop of main() is over
AtDecision == pc = "for" /\ idx = Len(config) + 1

\* a process that has just been started holds nothing yet
Fresh ==
    /\ idx' = 1
    /\ filtered_files' = <<>>
    /\ files' = <<>>
    /\ task' = <<>>
    /\ results' = {}
    /\ batch' = NoBatch
    /\ file_violations' = {}
    /\ fixable' = FALSE

\* lines 160-164 and 175-180, and the return at the end of main()
Finish ==
    /\ AtDecision
    /\ LET d == Decision(file_violations, fixable, validate_only)
       IN /\ d # "Retry"
          /\ outcome' = d
          /\ status' = ExitStatus(d)
    /\ pc' = "exit"
    /\ UNCHANGED <<disk, args, config, idx, loopvars, file_violations, fixable,
                   parent, retry, history, runs, first>>

\* lines 165-167: git_tools.attempt_automatic_fixes starts the program again,
\* in fix mode, on the violating files, and waits for it
Retry ==
    /\ AtDecision
    /\ Decision(file_violations, fixable, validate_only) = "Retry"
    /\ parent' = <<[args |-> args, file_violations |-> file_violations,
                    fixable |-> fixable, idx |-> idx]>> \o parent
    /\ args' = [args EXCEPT !.tool = "fix", !.files = RetryFiles(file_violations)]
    /\ pc' = "main"
    /\ Fresh
    /\ UNCHANGED <<disk, config, outfile, allq, status, outcome, retry, history,
                   runs, first>>

\* lines 166-174 and 180: the fix run has ended; main() exits with 1, silently
\* when attempt_automatic_fixes answers true, after a message otherwise
Return ==
    /\ pc = "exit"
    /\ parent # <<>>
    /\ retry' = <<[status |-> status, outcome |-> outcome, files |-> args.files]>>
    /\ args' = parent[1].args
    /\ file_violations' = parent[1].file_violations
    /\ fixable' = parent[1].fixable
    /\ idx' = parent[1].idx
    /\ parent' = Tail(parent)
    /\ outcome' = IF attempt_automatic_fixes(status)
                  THEN "ValidationFailedFixed" ELSE "ValidationFailedUnfixable"
    /\ status' = 1
    /\ pc' = "exit"
    /\ UNCHANGED <<disk, config, loopvars, history, runs, first>>

Next ==
    \/ Start
    \/ UnknownLinter
    \/ Dispatch
    \/ \E i \in 1..MaxFiles : RunOne(i)
    \/ \E f \in Paths : Write(f)
    \/ RunAll
    \/ AllOne
    \/ Aggregate
    \/ Finish
    \/ Retry
    \/ Return

Spec == Init /\ [][Next]_vars

SpecFilter == InitFilter /\ [][Next]_vars

\* the inputs for one checker at a time, the one with work in both phases
\* among them
SnapshotEntries ==
    { [name |-> n, whitelist |-> o.whitelist, blacklist |-> o.blacklist] :
        n \in _LINTER_MAPPING, o \in Options }
    \cup {[name |-> "foo", whitelist |-> <<PatAny>>, blacklist |-> <<>>]}

InitSnapshot ==
    /\ disk \in [Paths -> Contents]
    /\ config \in {<<e>> : e \in SnapshotEntries}
    /\ Started

SpecSnapshot == InitSnapshot /\ [][Next]_vars

\* the process the user started has ended
Terminated == pc = "exit" /\ parent = <<>>

\* every step is taken sooner or later: the pool runs its tasks, a write
\* completes, the parent waits for the run it started
FairSpec == Spec /\ WF_vars(Next)

\* the process is killed from outside, anywhere before it ends
Kill ==
    /\ pc # "killed"
    /\ ~Terminated
    /\ pc' = "killed"
    /\ UNCHANGED <<disk, args, config, idx, loopvars, file_violations, fixable,
                   status, outcome, parent, retry, history, runs, first>>

NextKill == Next \/ Kill

SpecKill == Init /\ [][NextKill]_vars

\* every order of the entries of a roster
RosterOrders(roster) ==
    { p \in SeqsUpTo(Range(roster), Len(roster)) :
        Len(p) = Len(roster) /\ Range(p) = Range(roster) }

\* the same command line, on the same working tree, with the entries of the
\* configuration in another order: the result of the loop is kept, the tree
\* put back, and main() started again
Permute ==
    /\ AtDecision
    /\ parent = <<>>
    /\ retry = <<>>
    /\ first = <<>>
    /\ \E p \in RosterOrders(config) :
          /\ p # config
          /\ config' = p
    /\ first' = <<[file_violations |-> file_violations, fixable |-> fixable,
                   config |-> config]>>
    /\ disk' = disk0
    /\ pc' = "main"
    /\ Fresh
    /\ UNCHANGED <<args, outfile, allq, status, outcome, parent, retry, history,
                   runs>>

NextPerm == Next \/ Permute

SpecPerm == Init /\ [][NextPerm]_vars

(* ------------------------------ claims --------------------------------- *)

\* the checkers of the roster have all been run by the process at hand
AllRan == idx = Len(config) + 1

\* the files the process at hand has opened for writing so far
WrittenAt(d) == {w \in writes : w.depth = d}

\* C1: when the roster holds a name that is not registered, the run ends with
\* status 1 before any checker was handed a file and before any file was
\* written, wherever the name stands in the roster.
C1_AbortBeforeAnyWork ==
    outcome = "ConfigurationError" =>
        /\ status = 1
        /\ passed = {}
        /\ writes = {}
        /\ disk = disk0

\* C2, as stated: a process ends with status 0 exactly when every checker of
\* the roster ran and no path violates; every other end has status 1.
C2_ZeroExactlyWhenClean ==
    pc = "exit" =>
        /\ status \in {0, 1}
        /\ status = 0 <=> (AllRan /\ file_violations = {})

\* C2, amended: a process ends with status 0 exactly when its file list is
\* empty (no checker is run, no name is looked up) or when every checker of
\* the roster ran and no path violates; every other end has status 1.
C2_ExitStatus ==
    pc = "exit" =>
        /\ status \in {0, 1}
        /\ status = 0 <=> (args.files = <<>> \/ (AllRan /\ file_violations = {}))
        /\ status = 0 <=> outcome \in {"Clean", "NoFiles"}
        /\ outcome = "Clean" => (AllRan /\ file_violations = {})
        /\ outcome = "NoFiles" <=> args.files = <<>>

\* a run over a roster of two checkers that both were handed files, ending clean
C2_Witness ==
    /\ Terminated
    /\ status = 0
    /\ outcome = "Clean"
    /\ Len(config) = 2
    /\ \A i \in 1..2 : \E p \in passed : p.linter = config[i].name

\* what C3 says of every state: the program is started at most twice, the
\* second time in fix mode, and only by a validate run that found violations
\* of which one at least is fixable
C3_AtMostOneRetry ==
    /\ runs <= 2
    /\ depth <= 1
    /\ depth = 1 => (args.tool = "fix" /\ runs = IF pc = "main" THEN 1 ELSE 2)
    /\ Terminated =>
          (runs = 2 <=> /\ args.tool = "validate"
                        /\ AllRan
                        /\ file_violations # {}
                        /\ fixable)
    /\ Terminated => (runs = 2 <=> retry # <<>>)

\* C3: a validate run with violations of which one is fixable starts the
\* pipeline again in fix mode exactly once; the run it starts never starts
\* another, a fix run starts none, a run without violations or without a
\* fixable one starts none; so the pipeline runs at most twice, and the run
\* always reaches its end.
C3_OneBoundedRetry == []C3_AtMostOneRetry /\ <>Terminated

\* a validate run that re-invoked the pipeline once and has ended
C3_Witness ==
    /\ Terminated
    /\ runs = 2
    /\ retry # <<>>
    /\ args.tool = "validate"
    /\ retry[1].outcome = "WrittenToDisk"

\* what the checkers of the validate run reported
Found == {e \in events : e.depth = 0}

\* C4, as stated: every path handed to the fix run had a violation reported
\* as fixable in the validate run; a path whose violations were all reported
\* as not fixable is not handed over.
C4_OnlyFixablePaths ==
    depth = 1 =>
        \A f \in Range(args.files) : \E e \in Found : e.path = f /\ e.fixable

\* C4, amended: the file list handed to the fix run is the violating-path set
\* of the validate run, which had at least one violation reported as fixable:
\* every path handed over had a violation reported, fixable or not, and every
\* path with a violation is handed over, also one whose violations were all
\* reported as not fixable.
C4_RetryFilesAreViolatingPaths ==
    depth = 1 =>
        /\ args.tool = "fix"
        /\ parent[1].args.tool = "validate"
        /\ Range(args.files) = {e.path : e \in Found}
        /\ Range(args.files) = parent[1].file_violations
        /\ Len(args.files) = Cardinality(Range(args.files))
        /\ \E e \in Found : e.fixable

\* the fix run has checked two paths handed over, one of which had only
\* violations reported as not fixable
C4_Witness ==
    /\ depth = 1
    /\ AllRan
    /\ Range(args.files) = Paths
    /\ \E f \in Range(args.files) :
          \A e \in Found : e.path = f => ~e.fixable
    /\ \E p \in passed : p.depth = 1

\* one violation in the validate run, from changed contents, and the fix run
\* has rewritten that file with the checker's new contents
C5_Scenario ==
    /\ Cardinality(Found) = 1
    /\ \E e \in Found :
          /\ e.kind = "changed"
          /\ \E w \in WrittenAt(1) : w.path = e.path /\ disk[w.path] = w.new
          /\ disk[e.path] # disk0[e.path]

C5_FixedReached == Terminated /\ outcome = "ValidationFailedFixed"

\* the names the checker of entry i was handed in phase ph by the process
\* at hand
PassedTo(i, ph) ==
    {p.path : p \in {q \in passed : /\ q.depth = depth
                                    /\ q.linter = config[i].name
                                    /\ q.phase = ph}}

\* r is the beginning of the name f
StartsWith(f, r) ==
    /\ Len(r) <= Len(f)
    /\ \A k \in 1..Len(r) : f[k] = r[k]

\* the candidate paths entry e lets through: some include pattern matches at
\* the start of the path and no exclude pattern does
LetThrough(e) ==
    {f \in Range(args.files) :
        /\ \E r \in Range(e.whitelist) : StartsWith(f, r)
        /\ ~\E r \in Range(e.blacklist) : StartsWith(f, r)}

\* C6: a checker is handed a candidate path if and only if the path matches
\* an include pattern at its start and matches no exclude pattern; with an
\* empty include list it is handed none.
C6_Filter ==
    /\ \A i \in 1..Len(config) :
          /\ PassedTo(i, "one") \subseteq LetThrough(config[i])
          /\ PassedTo(i, "all") \subseteq LetThrough(config[i])
          /\ config[i].whitelist = <<>> =>
                (PassedTo(i, "one") = {} /\ PassedTo(i, "all") = {})
    /\ pc \in {"pool", "all"} => Range(filtered_files) = LetThrough(config[idx])
    /\ (pc = "all" \/ (pc = "for" /\ idx > 1)) =>
          \A i \in 1..Len(config) :
              (i < idx \/ (i = idx /\ pc = "all")) =>
                  /\ PassedTo(i, "one") = LetThrough(config[i])
                  /\ PassedTo(i, "all") = LetThrough(config[i])

\* a checker has been handed FileA and not FileB, which holds the include
\* pattern further in and would have passed the exclude patterns
C6_Witness ==
    /\ pc = "all"
    /\ Range(args.files) = Paths
    /\ PassedTo(idx, "one") = {FileA}
    /\ PassedTo(idx, "all") = {FileA}
    /\ config[idx].whitelist = <<PatA>>
    /\ config[idx].blacklist = <<>>

\* the checker loop has ended a second time, over the same command line and
\* working tree, with the roster in another order
SecondResult == AtDecision /\ parent = <<>> /\ first # <<>>

\* C7, as stated: for the same file contents, file list and mode, fix as well
\* as validate, every order of the roster ends the checker loop with the same
\* violating paths and the same fixable flag.
C7_AnyOrderSameResult ==
    SecondResult =>
        /\ first[1].file_violations = file_violations
        /\ first[1].fixable = fixable

\* C7, amended: in validate mode, for the same file contents and file list,
\* any two orders of the roster with which the checker loop runs to its end
\* give the same violating paths and the same fixable flag.  In fix mode they
\* need not: a checker reads what the checkers before it have written.
C7_ValidateOrderIndependent ==
    (SecondResult /\ args.tool = "validate") =>
        /\ first[1].file_violations = file_violations
        /\ first[1].fixable = fixable

\* two checkers that both reported, run in both orders in validate mode
C7_Witness ==
    /\ SecondResult
    /\ args.tool = "validate"
    /\ Len(config) = 2
    /\ config # first[1].config
    /\ \A i \in 1..2 : \E e \in events : e.linter = config[i].name
    /\ file_violations = Paths
    /\ fixable

\* what the checkers reported to the process at hand
EventsHere == {e \in events : e.depth = depth}

\* C8: when the checker loop has ended, a path is among the violating paths
\* if and only if some checker, in its per-file or its whole-set phase,
\* reported changed contents or a failure for it, and the fixable flag is the
\* OR of the flags of all the violations reported.
C8_Aggregation ==
    AtDecision =>
        /\ file_violations = {e.path : e \in EventsHere}
        /\ fixable = (\E e \in EventsHere : e.fixable)

\* the loop has ended with a changed path and a path that failed as not
\* fixable, reported by different checkers
C8_Witness ==
    /\ AtDecision
    /\ fixable
    /\ file_violations = Paths
    /\ \E e1, e2 \in EventsHere :
          /\ e1.kind = "changed"
          /\ e2.kind = "failure" /\ ~e2.fixable
          /\ e1.path # e2.path
          /\ e1.linter # e2.linter

\* C9: the write of a corrected file is atomic: killed at any point, the
\* run leaves every file with its complete prior contents or with the
\* complete new contents, never empty, truncated or mixed.
C9_AtomicWrite ==
    pc = "killed" =>
        \A f \in Paths :
            \/ disk[f] = disk0[f]
            \/ \E w \in writes : w.path = f /\ disk[f] \in {w.given, w.new}

\* C10: the checker loop of a validate run modifies no file; a fix run writes
\* a file only where a checker returned contents other than those it was
\* given, and writes that checker's new contents; a path whose contents are
\* unchanged, or for which the checker failed, is not written, and an
\* unchanged path is not recorded as a violation.
C10_WritesOnlyChanges ==
    /\ (validate_only /\ retry = <<>>) => (disk = disk0 /\ writes = {})
    /\ \A w \in writes :
          /\ w.new # w.given
          /\ w.phase = "one" =>
                LET r == run_one(w.linter, w.path, w.given)
                IN ~r.raised /\ r.new_contents = w.new
          /\ (w.phase = "all" /\ pc = "all" /\ w.depth = depth /\ w.linter = linter) =>
                /\ w.new = batch.new_file_contents[w.path]
                /\ w.given = batch.original_contents[w.path]
          /\ \E e \in events :
                /\ e.kind = "changed" /\ e.path = w.path /\ e.linter = w.linter
                /\ e.depth = w.depth /\ e.phase = w.phase
          /\ ~\E e \in events :
                /\ e.kind = "failure" /\ e.path = w.path /\ e.linter = w.linter
                /\ e.depth = w.depth /\ e.phase = w.phase
    /\ \A f \in Paths :
          /\ f \in DOMAIN outfile => \E w \in writes : w.path = f
          /\ f \notin DOMAIN outfile =>
                (disk[f] = disk0[f] \/ \E w \in writes : w.path = f /\ w.new = disk[f])
          /\ (~\E e \in events : e.path = f /\ e.kind = "changed") => disk[f] = disk0[f]
    /\ pc \in {"pool", "all"} =>
          \A r \in results :
              r[1] # None => \E e \in EventsHere : e.path = r[1] /\ e.linter = linter
    /\ file_violations \subseteq {e.path : e \in EventsHere}

\* a fix run has rewritten one file, left alone a second that its checker
\* found unchanged, and recorded the first alone
C10_Witness ==
    /\ AtDecision
    /\ args.tool = "fix"
    /\ depth = 0
    /\ \E f, g \in Paths :
          /\ f # g
          /\ disk[f] # disk0[f]
          /\ \E w \in writes : w.path = f /\ w.new = disk[f]
          /\ disk[g] = disk0[g]
          /\ \E p \in passed : p.path = g
          /\ file_violations = {f}

\* the place of a checker in the roster
Place(name) == CHOOSE i \in 1..Len(config) : config[i].name = name

\* the failures the checkers raised in the process at hand
FailuresHere == {e \in EventsHere : e.kind = "failure"}

\* C11: a failure raised by one per-file task neither cancels nor aborts
\* anything: the failing path is recorded with the fixable flag the checker
\* declared, the tasks of the other paths of that checker all complete and
\* have their outcome recorded, and the checkers after it are run; a failure
\* of the whole-set phase records every path of the filtered set with the
\* flag declared.
C11_FailureDoesNotCancel ==
    /\ pc \in {"pool", "all"} =>
          \A e \in FailuresHere :
              (e.linter = linter /\ e.phase = "one") =>
                  /\ \A i \in DOMAIN task :
                        task[i].name = e.path => task[i].state = "done"
                  /\ run_one(linter, e.path, files[e.path]).raised
                  /\ e.fixable = run_one(linter, e.path, files[e.path]).fixable
                  /\ <<e.path, e.fixable>> \in results
    /\ pc = "all" =>
          /\ Drained
          /\ \A f \in Range(filtered_files) :
                /\ \E i \in DOMAIN task : task[i].name = f
                /\ f \in PassedTo(idx, "one")
                /\ LET r == run_one(linter, f, files[f])
                   IN IF r.raised THEN <<f, r.fixable>> \in results
                      ELSE IF r.new_contents # files[f] THEN <<f, TRUE>> \in results
                      ELSE <<None, FALSE>> \in results
          /\ \A e \in FailuresHere :
                (e.linter = linter /\ e.phase = "all") =>
                    /\ e.fixable = run_all(linter, filtered_files, disk).fixable
                    /\ \A f \in Range(filtered_files) :
                          /\ <<f, e.fixable>> \in results
                          /\ \E g \in FailuresHere :
                                /\ g.linter = linter /\ g.phase = "all"
                                /\ g.path = f /\ g.fixable = e.fixable
    /\ pc \in {"for", "exit"} =>
          /\ \A e \in FailuresHere :
                /\ Place(e.linter) < idx
                /\ e.path \in file_violations
                /\ e.fixable => fixable
          /\ \A i \in 1..Len(config) :
                i < idx => /\ PassedTo(i, "one") = LetThrough(config[i])
                           /\ PassedTo(i, "all") = LetThrough(config[i])
    /\ (pc = "exit" /\ outcome \notin {"ConfigurationError", "NoFiles"}) => AllRan

\* a checker failed on one path in its per-file phase while its task for the
\* other path completed, and the checker after it was run and failed in its
\* whole-set phase, for both paths
C11_Witness ==
    /\ AtDecision
    /\ Len(config) = 2
    /\ file_violations = Paths
    /\ \E e \in FailuresHere :
          /\ e.phase = "one"
          /\ e.linter = config[1].name
          /\ PassedTo(1, "one") = Paths
          /\ ~\E g \in EventsHere : g.linter = e.linter /\ g.path # e.path
    /\ \A f \in Paths :
          \E e \in FailuresHere :
              e.phase = "all" /\ e.linter = config[2].name /\ e.path = f

\* nothing of the checker at hand is under way: no task waits or runs, no file
\* is open, the whole-set phase has gone through its names
NothingInFlight ==
    /\ outfile = <<>>
    /\ allq = <<>>
    /\ Drained

\* the checkers that have been handed a file, have reported or have written
\* in the process at hand
ActiveHere ==
    {r.linter : r \in {q \in passed : q.depth = depth}}
    \cup {e.linter : e \in EventsHere}
    \cup {w.linter : w \in WrittenAt(depth)}
    \cup {r.linter : r \in {q \in reads : q.depth = depth}}

\* what C12 says of every state: only the checkers up to the one the loop is
\* at have done anything, between two checkers nothing is under way, and no
\* checker has read a file that was being written
C12_InOrder ==
    /\ \A n \in ActiveHere : Place(n) <= idx
    /\ pc = "for" => (NothingInFlight /\ \A n \in ActiveHere : Place(n) < idx)
    /\ pc = "all" => Drained
    /\ \A f \in DOMAIN outfile :
          \E w \in WrittenAt(depth) : w.path = f /\ w.linter = linter
    /\ \A f \in DOMAIN files : files[f] \in Contents
    /\ pc = "all" =>
          \A f \in DOMAIN batch.original_contents :
              batch.original_contents[f] \in Contents

\* what C12 says of every step: the loop moves to the next checker, and a
\* checker reads its files, only when nothing is under way; every name handed
\* over, every report and every write is of the checker the loop is at; a
\* file changes only while that checker has it open
C12_Step ==
    /\ (idx' # idx /\ parent' = parent) =>
          (idx' = idx + 1 /\ pc = "all" /\ NothingInFlight)
    /\ (files' # files /\ parent' = parent) =>
          (pc = "for" /\ pc' = "pool" /\ NothingInFlight /\ idx' = idx)
    /\ \A r \in (passed' \ passed) :
          r.linter = linter /\ r.depth = depth /\ pc \in {"pool", "all"}
    /\ \A e \in (events' \ events) :
          e.linter = linter /\ e.depth = depth /\ pc \in {"pool", "all"}
    /\ \A w \in (writes' \ writes) :
          w.linter = linter /\ w.depth = depth /\ pc \in {"pool", "all"}
    /\ \A r \in (reads' \ reads) :
          /\ r.linter = linter /\ r.depth = depth
          /\ NothingInFlight \/ (pc = "pool" /\ Drained /\ outfile = <<>>)
    /\ \A f \in Paths :
          disk'[f] # disk[f] =>
              /\ pc \in {"pool", "all"}
              /\ idx' = idx
              /\ f \in DOMAIN outfile \cup DOMAIN outfile'
              /\ \E w \in writes' : w.path = f /\ w.linter = linter /\ w.depth = depth

\* C12: the checkers run in the order of the roster with a full barrier
\* between them: no file is read, no task run and no file written for a
\* checker before every per-file task, the whole-set phase and every write of
\* the checker before it have finished.
C12_Barrier == []C12_InOrder /\ [][C12_Step]_vars

\* the second checker of the roster is writing a file that the first has
\* written, having read what the first wrote
C12_Witness ==
    /\ idx = 2
    /\ outfile # <<>>
    /\ \E w1, w2 \in WrittenAt(depth) :
          /\ w1.linter = config[1].name
          /\ w2.linter = config[2].name
          /\ w1.path = w2.path
          /\ w2.given = w1.new
          /\ w2.path \in DOMAIN outfile

\* the names the pool has a task for
TaskPaths == {task[i].name : i \in DOMAIN task}

\* C13: in the per-file phase of a checker there is exactly one task for
\* every distinct path of the filtered list, also when the file list names a
\* path more than once; so no two tasks of the pool write the same path.
C13_OneTaskPerPath ==
    pc \in {"pool", "all"} =>
        /\ TaskPaths = Range(filtered_files)
        /\ Len(task) = Cardinality(Range(filtered_files))
        /\ \A i, j \in DOMAIN task : task[i].name = task[j].name => i = j
        /\ pc = "pool" =>
              /\ DOMAIN outfile =
                    {task[i].name : i \in {j \in DOMAIN task : task[j].state = "running"}}
              /\ \A f \in DOMAIN outfile :
                    Cardinality({i \in DOMAIN task :
                                   task[i].name = f /\ task[i].state = "running"}) = 1
        /\ \A f \in Paths :
              Cardinality({w \in WrittenAt(depth) :
                             w.linter = linter /\ w.phase = "one" /\ w.path = f}) <= 1

\* a file list naming one path twice, and the single task of the pool writing
\* that path
C13_Witness ==
    /\ pc = "pool"
    /\ Len(filtered_files) = 2
    /\ filtered_files[1] = filtered_files[2]
    /\ Len(task) = 1
    /\ task[1].state = "running"
    /\ task[1].name \in DOMAIN outfile
    /\ \E w \in WrittenAt(depth) : w.path = task[1].name /\ w.linter = linter

\* two retrievals for the same path by the same run of a checker
SameRun(r1, r2) ==
    r1.depth = r2.depth /\ r1.linter = r2.linter /\ r1.path = r2.path

\* C14, its first half: in the run of one checker the contents of a filtered
\* path are retrieved once.
C14_RetrievedOnce ==
    \A r1, r2 \in reads : SameRun(r1, r2) => r1 = r2

\* C14: in the run of one checker the contents of a filtered path are
\* retrieved once and the checker sees one snapshot: the contents its
\* whole-set phase sees for a path are those its per-file phase saw, also in
\* fix mode where the per-file phase may have rewritten the file.
C14_ConsistentSnapshot ==
    \A r1, r2 \in reads : SameRun(r1, r2) => r1.contents = r2.contents

\* the calls of _run_linter_all for the checker of entry i in the process at
\* hand
CallsOf(i) ==
    {k \in DOMAIN called :
        called[k] = [depth |-> depth, linter |-> config[i].name]}

\* the names the loop of _run_linter_all has been through
Returned == DOMAIN batch.new_file_contents \ Range(allq)

\* what the whole-set phase of the checker at hand has reported or written
\* for f
AllEvents(f) ==
    {e \in EventsHere : e.linter = linter /\ e.phase = "all" /\ e.path = f}

AllWrites(f) ==
    {w \in WrittenAt(depth) : w.linter = linter /\ w.phase = "all" /\ w.path = f}

\* what C15 says of every state: _run_linter_all has been called once for
\* every checker the loop is past, whatever its filtered list, and not yet
\* for the others; it runs when the pool has drained, one file at a time;
\* it is through every name it returns once, a changed one reported (and in
\* fix mode written) once, an unchanged one neither reported nor written
C15_OncePerChecker ==
    /\ \A i \in 1..Len(config) :
          Cardinality(CallsOf(i)) =
              IF i < idx \/ (i = idx /\ pc = "all") THEN 1 ELSE 0
    /\ pc = "all" =>
          /\ Drained
          /\ Cardinality(DOMAIN outfile) <= 1
          /\ \A i, j \in DOMAIN allq : allq[i] = allq[j] => i = j
          /\ Range(allq) \subseteq DOMAIN batch.new_file_contents
          /\ DOMAIN outfile \subseteq Range(allq)
          /\ \A f \in DOMAIN batch.new_file_contents :
                LET changed == batch.new_file_contents[f] # batch.original_contents[f]
                    begun == f \in Returned \cup DOMAIN outfile
                IN /\ (changed /\ begun) <=>
                         \E e \in AllEvents(f) : e.kind = "changed"
                   /\ (changed /\ begun /\ ~validate_only) <=> AllWrites(f) # {}
                   /\ Cardinality(AllWrites(f)) <= 1
                   /\ (changed /\ f \in Returned) => <<f, TRUE>> \in results
                   /\ (~changed /\ f \in Returned) => <<None, FALSE>> \in results
                   /\ ~changed => AllEvents(f) = {}
    /\ pc = "pool" => \A w \in WrittenAt(depth) : w.linter = linter => w.phase = "one"

\* what C15 says of every step: _run_linter_all is called from main()'s own
\* process once the pool has returned, and only there is a file of the
\* whole-set phase opened
C15_Step ==
    /\ called' # called =>
          /\ pc = "pool" /\ pc' = "all"
          /\ Drained /\ outfile = <<>>
          /\ called' = Append(called, [depth |-> depth, linter |-> linter])
    /\ \A w \in writes' \ writes :
          w.phase = "all" => (pc = "all" /\ outfile = <<>> /\ w.path = Head(allq))

C16_Step ==
    parent' = parent =>
        /\ file_violations \subseteq file_violations'
        /\ fixable => fixable'
        /\ (file_violations' # file_violations \/ fixable' # fixable) =>
              /\ pc = "all" /\ pc' = "for" /\ idx' = idx + 1
              /\ file_violations' = file_violations \cup Violations(results)
              /\ fixable' = (fixable \/ AnyFixable(results))

\* C16: the result of the session only grows during a run: after each checker
\* of the roster the violating paths hold what they held before it, and the
\* fixable flag, once true, stays true.
C16_OnlyGrows == [][C16_Step]_vars

\* the first checker has reported one path as fixable, the second the other
\* path alone and as not fixable, and the session holds both and the flag
C16_Witness ==
    /\ AtDecision
    /\ Len(config) = 2
    /\ \E f, g \in Paths :
          /\ f # g
          /\ {e.path : e \in {x \in EventsHere : x.linter = config[1].name}} = {f}
          /\ {e.path : e \in {x \in EventsHere : x.linter = config[2].name}} = {g}
          /\ \A e \in EventsHere : e.fixable <=> e.linter = config[1].name
          /\ file_violations = {f, g}
    /\ fixable

\* the process at hand has ended in the branch "errors cannot be fixed"
EndedUnfixable == pc = "exit" /\ outcome = "UnfixableErrors"

\* C17: a violation that comes from changed contents is recorded as fixable,
\* in validate mode as in fix mode; so a run ends UnfixableErrors only when
\* every violating path comes from a failure declared not fixable, and one
\* changed file anywhere in the session makes the fixable flag true, whatever
\* the other violations are.
C17_ChangedIsFixable ==
    /\ \A e \in events : e.kind = "changed" => e.fixable
    /\ pc \in {"pool", "all"} =>
          \A r \in results :
              (r[1] # None /\ ~r[2]) =>
                  \E e \in FailuresHere :
                      e.path = r[1] /\ e.linter = linter /\ ~e.fixable
    /\ EndedUnfixable =>
          /\ file_violations # {}
          /\ ~fixable
          /\ \A e \in EventsHere : e.kind = "failure" /\ ~e.fixable
          /\ \A f \in file_violations : \E e \in FailuresHere : e.path = f
    /\ (AtDecision /\ \E e \in EventsHere : e.kind = "changed") =>
          /\ fixable
          /\ Decision(file_violations, fixable, validate_only) # "UnfixableErrors"
    /\ (pc = "exit" /\ AllRan /\ \E e \in EventsHere : e.kind = "changed") =>
          outcome # "UnfixableErrors"

\* a validate run found one changed file and, on another path, a failure
\* declared not fixable, and went on to the retry instead of ending
\* UnfixableErrors
C17_Witness ==
    /\ Terminated
    /\ args.tool = "validate"
    /\ retry # <<>>
    /\ \E e1, e2 \in Found :
          /\ e1.kind = "changed" /\ e1.fixable
          /\ e2.kind = "failure" /\ ~e2.fixable
          /\ e1.path # e2.path
          /\ \A e \in Found : e.path = e2.path => ~e.fixable

\* C18: with an empty file list the run ends with status 0 without having
\* read the configuration, looked a checker name up, run a checker or written
\* a file; a name of the configuration that is not registered is not
\* reported then.
C18_NoFilesNoWork ==
    /\ (args.files = <<>> /\ pc # "main") =>
          /\ pc = "exit"
          /\ status = 0
          /\ outcome = "NoFiles"
          /\ depth = 0
          /\ runs = 1
          /\ loaded = {}
          /\ idx = 1
          /\ passed = {}
          /\ reads = {}
          /\ called = <<>>
          /\ events = {}
          /\ writes = {}
          /\ outfile = <<>>
          /\ disk = disk0
    /\ outcome = "ConfigurationError" => (args.files # <<>> /\ depth \in loaded)
    /\ pc \in {"for", "pool", "all"} => depth \in loaded

\* a run without files has ended with status 0 although the first name of
\* its configuration is not registered
C18_Witness ==
    /\ Terminated
    /\ args.files = <<>>
    /\ status = 0
    /\ runs = 1
    /\ config # <<>>
    /\ config[1].name \notin _LINTER_MAPPING

====
